---------------------------- MODULE Spec2Model ----------------------------
(***************************************************************************)
(* vartyint: varint writers and readers over Vec<u8> / &[u8] (src/lib.rs). *)
(*                                                                         *)
(* The macros write_unsigned!, write_signed!, read_unsigned! and           *)
(* read_signed! expand the same body for every integer width.  The model   *)
(* instantiates them for the 8-bit and 16-bit widths, whose values TLC can *)
(* hold; all arithmetic is done in the width of the type (two's            *)
(* complement, wrapping shifts, sign-extending right shift on signed       *)
(* types).                                                                 *)
(***************************************************************************)
EXTENDS Integers, Sequences, FiniteSets, TLC

VARIABLES
    T,          \* the integer type the calls are instantiated for
    mode,       \* "plain": write_T / read_T; "delta": write_many_delta / read_many_delta
    buf,        \* the caller's output buffer, Vec<u8>
    entry,      \* contents of buf when the write in progress (or the last one) was entered
    values,     \* the values handed to the writers so far, in order
    pc,         \* "idle", "unsigned_loop", "signed_loop", "abort"
    val,        \* the write loop's local `val`
    reference,  \* write_many_delta's running reference
    view,       \* the input slice the next read is called on (NoView: nothing to read yet)
    results,    \* one record per finished read, in order
    acc         \* read_many_delta's running accumulator

vars == <<T, mode, buf, entry, values, pc, val, reference, view, results, acc>>

(***************************************************************************)
(* Bounds of the model.                                                    *)
(***************************************************************************)
MaxInputLen == 4    \* longest byte slice handed to a reader as a literal
MaxSeq == 2         \* most values written into one buffer
MaxVecLen == 8      \* bytes the Vec can hold before an allocation fails

(***************************************************************************)
(* Integer types: write_u8/u16/i8/i16 and read_u8/u16/i8/i16.              *)
(***************************************************************************)
U8  == [name |-> "u8",  signed |-> FALSE, bits |-> 8]
U16 == [name |-> "u16", signed |-> FALSE, bits |-> 16]
I8  == [name |-> "i8",  signed |-> TRUE,  bits |-> 8]
I16 == [name |-> "i16", signed |-> TRUE,  bits |-> 16]
Types == {U8, U16, I8, I16}

Pow2(n) == 2 ^ n

MinOf(t) == IF t.signed THEN -Pow2(t.bits - 1) ELSE 0
MaxOf(t) == IF t.signed THEN Pow2(t.bits - 1) - 1 ELSE Pow2(t.bits) - 1

\* The bit pattern of x in t, as a natural below 2^bits.
Pattern(t, x) == x % Pow2(t.bits)

\* `x as t`: the value of t with the bit pattern of x (truncating cast).
Cast(t, x) ==
    LET p == Pattern(t, x)
    IN  IF t.signed /\ p >= Pow2(t.bits - 1) THEN p - Pow2(t.bits) ELSE p

RECURSIVE BitAnd(_, _)
BitAnd(a, b) ==
    IF a = 0 \/ b = 0 THEN 0
    ELSE (IF a % 2 = 1 /\ b % 2 = 1 THEN 1 ELSE 0) + 2 * BitAnd(a \div 2, b \div 2)

RECURSIVE BitOr(_, _)
BitOr(a, b) ==
    IF a = 0 THEN b
    ELSE IF b = 0 THEN a
    ELSE (IF a % 2 = 1 \/ b % 2 = 1 THEN 1 ELSE 0) + 2 * BitOr(a \div 2, b \div 2)

RECURSIVE BitXor(_, _)
BitXor(a, b) ==
    IF a = 0 THEN b
    ELSE IF b = 0 THEN a
    ELSE (IF a % 2 # b % 2 THEN 1 ELSE 0) + 2 * BitXor(a \div 2, b \div 2)

\* x & y, x | y, x ^ y on values of t.
And(t, x, y) == Cast(t, BitAnd(Pattern(t, x), Pattern(t, y)))
Or(t, x, y)  == Cast(t, BitOr(Pattern(t, x), Pattern(t, y)))
Xor(t, x, y) == Cast(t, BitXor(Pattern(t, x), Pattern(t, y)))

\* x << n for n < bits: bits shifted past the top are dropped.
Shl(t, x, n) == Cast(t, Pattern(t, x) * Pow2(n))

\* x >> n: sign-extending on signed types, zero-filling on unsigned ones.
Shr(t, x, n) == x \div Pow2(n)

\* -x, wrapping.
Neg(t, x) == Cast(t, 0 - x)


(***************************************************************************)
(* Results of a read: Ok((val, rest)) or Err(kind).  `left` is the local   *)
(* slice `buf` of the reader when it returned; on Ok it is the rest.       *)
(***************************************************************************)
NoView == <<256>>
Ok(v, rest) == [ok |-> TRUE, val |-> v, err |-> "None", left |-> rest]
Err(e, rest) == [ok |-> FALSE, val |-> 0, err |-> e, left |-> rest]

(***************************************************************************)
(* Inputs of the calls.                                                    *)
(***************************************************************************)
\* Values handed to a writer: every value of an 8-bit type, the edges of a 16-bit one.
Values(t) ==
    IF t.bits = 8 THEN MinOf(t) .. MaxOf(t)
    ELSE {x \in {0, 1, 63, 64, 127, 128, 300, 1000, 8191, 8192, 12345, 16383, 16384,
                 32767, 32768, 40000, 65535,
                 -1, -2, -64, -65, -1000, -8192, -8193, -12345, -16384, -16385,
                 -32767, -32768} : MinOf(t) <= x /\ x <= MaxOf(t)}

\* Values written after the first one into the same buffer.
MoreValues(t) ==
    {x \in {0, 1, 200, -2, -100} : MinOf(t) <= x /\ x <= MaxOf(t)}

\* Bytes of the literal slices handed to a reader.
InputBytes == {0, 1, 2, 3, 127, 128, 254, 255}

RECURSIVE SeqsUpTo(_, _)
SeqsUpTo(S, n) ==
    IF n = 0 THEN {<<>>}
    ELSE LET shorter == SeqsUpTo(S, n - 1)
         IN  shorter \cup {Append(s, b) : s \in {x \in shorter : Len(x) = n - 1}, b \in S}

\* Bytes that follow the third byte of a literal slice.
TailBytes == {1, 128}

\* Every slice of up to three InputBytes, and the three-byte ones followed by TailBytes.
Inputs ==
    LET heads == SeqsUpTo(InputBytes, 3)
    IN  heads \cup {h \o t : h \in {x \in heads : Len(x) = 3},
                              t \in SeqsUpTo(TailBytes, MaxInputLen - 3)}

(***************************************************************************)
(* Vec::push (lib.rs 67, 77, 198, 211): appends one byte, or the           *)
(* allocation fails and the process aborts.                                *)
(***************************************************************************)
CanPush == Len(buf) < MaxVecLen

(***************************************************************************)
(* write_unsigned! (lib.rs 65-80)                                          *)
(***************************************************************************)
\* Mutant of LowGroup: the mask is one bit short (0b0011_1111).
LowGroupNarrow(t, v) == Pattern(U8, And(t, v, 63))

\* lib.rs 72: (val & 0b0111_1111) as u8
LowGroup(t, v) == Pattern(U8, And(t, v, 127))

\* Mutant of WithContinuation: the continuation bit is set on every byte.
WithContinuationAlways(num, rest) == BitOr(num, 128)

\* lib.rs 74-76: the continuation bit is set when more groups follow
WithContinuation(num, rest) == IF rest # 0 THEN BitOr(num, 128) ELSE num

\* lib.rs 65-70: entry of write_T for an unsigned T, called with v
write_unsigned_entry(v) ==
    /\ ~T.signed
    /\ entry' = buf
    /\ IF v = 0
       THEN IF CanPush
            THEN buf' = Append(buf, 0) /\ pc' = "idle" /\ val' = 0
            ELSE buf' = buf /\ pc' = "abort" /\ val' = 0
       ELSE buf' = buf /\ pc' = "unsigned_loop" /\ val' = v

\* lib.rs 71-78: the loop test and one iteration of the body
write_unsigned_loop ==
    /\ pc = "unsigned_loop"
    /\ IF val = 0
       THEN /\ pc' = "idle"
            /\ UNCHANGED <<buf, val>>
       ELSE LET num  == LowGroup(T, val)
                next == Shr(T, val, 7)
            IN  IF CanPush
                THEN /\ buf' = Append(buf, WithContinuation(num, next))
                     /\ val' = next
                     /\ pc' = pc
                ELSE /\ pc' = "abort"
                     /\ UNCHANGED <<buf, val>>
    /\ UNCHANGED <<T, mode, entry, values, reference, view, results, acc>>

(***************************************************************************)
(* write_signed! (lib.rs 196-213)                                          *)
(***************************************************************************)
\* lib.rs 202: (val << 1) ^ (val >> size_of::<T>()*8-1), computed in T
ZigZag(t, v) == Xor(t, Shl(t, v, 1), Shr(t, v, t.bits - 1))

\* lib.rs 196-202: entry of write_T for a signed T, called with v
write_signed_entry(v) ==
    /\ T.signed
    /\ entry' = buf
    /\ IF v = 0
       THEN IF CanPush
            THEN buf' = Append(buf, 0) /\ pc' = "idle" /\ val' = 0
            ELSE buf' = buf /\ pc' = "abort" /\ val' = 0
       ELSE buf' = buf /\ pc' = "signed_loop" /\ val' = ZigZag(T, v)

\* lib.rs 205-212: the loop test and one iteration of the body
write_signed_loop ==
    /\ pc = "signed_loop"
    /\ IF val = 0
       THEN /\ pc' = "idle"
            /\ UNCHANGED <<buf, val>>
       ELSE LET num  == LowGroup(T, val)
                next == Shr(T, val, 7)
            IN  IF CanPush
                THEN /\ buf' = Append(buf, WithContinuation(num, next))
                     /\ val' = next
                     /\ pc' = pc
                ELSE /\ pc' = "abort"
                     /\ UNCHANGED <<buf, val>>
    /\ UNCHANGED <<T, mode, entry, values, reference, view, results, acc>>

\* The entry for the type in use.
write_entry(v) == IF T.signed THEN write_signed_entry(v) ELSE write_unsigned_entry(v)

\* The values a caller may write next.
NextValues == IF values = <<>> THEN Values(T) ELSE MoreValues(T)

\* write_T(v, &mut buf), as the tests call it (tests.rs 7-8, 114-115).
Write ==
    /\ mode = "plain"
    /\ pc = "idle"
    /\ view = NoView
    /\ Len(values) < MaxSeq
    /\ \E v \in NextValues :
          /\ values' = Append(values, v)
          /\ write_entry(v)
    /\ UNCHANGED <<T, mode, reference, view, results, acc>>

(***************************************************************************)
(* read_unsigned! (lib.rs 94-129) and read_signed! (lib.rs 144-181)        *)
(***************************************************************************)
\* Mutant of CheckedShl: None unless the whole 7-bit group fits below the top bit.
CheckedShlWholeGroup(t, x, n) ==
    IF n + 7 > t.bits THEN [some |-> FALSE, v |-> 0] ELSE [some |-> TRUE, v |-> Shl(t, x, n)]

\* lib.rs 113, 164: byte.checked_shl(n) is None exactly when n >= the bit width of T
CheckedShl(t, x, n) ==
    IF n >= t.bits THEN [some |-> FALSE, v |-> 0] ELSE [some |-> TRUE, v |-> Shl(t, x, n)]

\* Mutant of IsLast: the byte, already cast to T, is compared with 128.
IsLastCompared(t, byte) == byte < 128

\* lib.rs 110, 161: is_last = byte >> 7 == 0
IsLast(t, byte) == Shr(t, byte, 7) = 0

\* lib.rs 103-126: the loop, entered with the locals buf = b, num_bits_read and val = v
RECURSIVE read_unsigned_loop(_, _, _, _)
read_unsigned_loop(t, b, num_bits_read, v) ==
    IF b = <<>> THEN Err("NotEnoughBytes", b)
    ELSE LET byte    == Cast(t, Head(b))
             rest    == Tail(b)
             is_last == IsLast(t, byte)
             shifted == CheckedShl(t, And(t, byte, 127), num_bits_read)
         IN  IF ~shifted.some THEN Err("TooManyBytesForType", rest)
             ELSE IF is_last THEN Ok(Or(t, v, shifted.v), rest)
             ELSE read_unsigned_loop(t, rest, num_bits_read + 7, Or(t, v, shifted.v))

\* lib.rs 94-129
read_unsigned(t, b) ==
    IF b = <<>> THEN Err("EmptyBuffer", b) ELSE read_unsigned_loop(t, b, 0, 0)

\* lib.rs 154-176: the loop of the signed reader; Ok carries the accumulated val
RECURSIVE read_signed_loop(_, _, _, _)
read_signed_loop(t, b, num_bits_read, v) ==
    IF b = <<>> THEN Err("NotEnoughBytes", b)
    ELSE LET byte    == Cast(t, Head(b))
             rest    == Tail(b)
             is_last == IsLast(t, byte)
             shifted == CheckedShl(t, And(t, byte, 127), num_bits_read)
         IN  IF ~shifted.some THEN Err("TooManyBytesForType", rest)
             ELSE IF is_last THEN Ok(Or(t, v, shifted.v), rest)
             ELSE read_signed_loop(t, rest, num_bits_read + 7, Or(t, v, shifted.v))

\* lib.rs 178: (val >> 1) ^ -(val & 1), computed in T
UnZigZag(t, v) == Xor(t, Shr(t, v, 1), Neg(t, And(t, v, 1)))

\* lib.rs 144-181
read_signed(t, b) ==
    IF b = <<>> THEN Err("EmptyBuffer", b)
    ELSE LET r == read_signed_loop(t, b, 0, 0)
         IN  IF r.ok THEN Ok(UnZigZag(t, r.val), r.left) ELSE r

\* read_T for the type t.
read(t, b) == IF t.signed THEN read_signed(t, b) ELSE read_unsigned(t, b)

\* A finished read: the slice it was called on and what it returned.
Finished(b, r) == [input |-> b, ok |-> r.ok, val |-> r.val, err |-> r.err, left |-> r.left]

\* Whether the caller goes on reading: nothing read yet, or the last read returned Ok.
MayRead ==
    /\ pc = "idle"
    /\ view # NoView
    /\ IF results = <<>> THEN TRUE ELSE results[Len(results)].ok

\* read_T(view); on Ok the caller goes on with the rest (lib.rs 21-34, tests.rs 49, 117).
Read ==
    /\ mode = "plain"
    /\ MayRead
    /\ LET r == read(T, view)
       IN  /\ results' = Append(results, Finished(view, r))
           /\ view' = IF r.ok THEN r.left ELSE view
    /\ UNCHANGED <<T, mode, buf, entry, values, pc, val, reference, acc>>

\* The caller hands a reader a literal byte slice (tests.rs 80-110, 161-189).
Literal ==
    /\ mode = "plain"
    /\ pc = "idle"
    /\ view = NoView
    /\ values = <<>>
    /\ \E b \in Inputs : view' = b
    /\ UNCHANGED <<T, mode, buf, entry, values, pc, val, reference, results, acc>>

\* The caller hands a reader the buffer it wrote: $reader(&veccy) (tests.rs 117).
Borrow ==
    /\ pc = "idle"
    /\ view = NoView
    /\ view' = buf
    /\ UNCHANGED <<T, mode, buf, entry, values, pc, val, reference, results, acc>>

(***************************************************************************)
(* write_many_delta and read_many_delta (spec.md 4.4; tests.rs 213-266).   *)
(* Both work on the single-value writer and reader above.                  *)
(***************************************************************************)
\* One element of write_many_delta: emit encode(v - reference), then reference = v.
write_many_delta ==
    /\ mode = "delta"
    /\ pc = "idle"
    /\ view = NoView
    /\ Len(values) < MaxSeq
    /\ \E v \in NextValues :
          /\ values' = Append(values, v)
          /\ write_entry(Cast(T, v - reference))
          /\ reference' = v
    /\ UNCHANGED <<T, mode, view, results, acc>>

\* One item of read_many_delta: production stops at an empty view; a decoded
\* difference is added to the accumulator, which is the item; an error is the item.
read_many_delta ==
    /\ mode = "delta"
    /\ MayRead
    /\ view # <<>>
    /\ LET r == read(T, view)
           a == Cast(T, acc + r.val)
       IN  IF r.ok
           THEN /\ results' = Append(results, Finished(view, Ok(a, r.left)))
                /\ view' = r.left
                /\ acc' = a
           ELSE /\ results' = Append(results, Finished(view, r))
                /\ UNCHANGED <<view, acc>>
    /\ UNCHANGED <<T, mode, buf, entry, values, pc, val, reference>>

(***************************************************************************)
(* The specification.                                                      *)
(***************************************************************************)
Init ==
    /\ T \in Types
    /\ mode \in {"plain", "delta"}
    /\ mode = "delta" => T.signed
    /\ buf = <<>>
    /\ entry = <<>>
    /\ values = <<>>
    /\ pc = "idle"
    /\ val = 0
    /\ reference = 0
    /\ view = NoView
    /\ results = <<>>
    /\ acc = 0

Next ==
    \/ Write
    \/ write_unsigned_loop
    \/ write_signed_loop
    \/ Literal
    \/ Borrow
    \/ Read
    \/ write_many_delta
    \/ read_many_delta

Spec == Init /\ [][Next]_vars

(***************************************************************************)
(* The wire format and the value ranges, stated on the integers.           *)
(***************************************************************************)
CeilDiv(a, b) == (a + b - 1) \div b

RECURSIVE BitLength(_)
BitLength(u) == IF u = 0 THEN 0 ELSE 1 + BitLength(u \div 2)

\* Base-128 continuation encoding of the natural u, least significant group first.
RECURSIVE Base128(_)
Base128(u) == IF u < 128 THEN <<u>> ELSE <<(u % 128) + 128>> \o Base128(u \div 128)

\* The zig-zag image of v on the integers: 2v for v >= 0, -2v-1 for v < 0.
ZigZagOf(v) == IF v >= 0 THEN 2 * v ELSE (-2) * v - 1

IsPrefix(p, s) == Len(p) <= Len(s) /\ SubSeq(s, 1, Len(p)) = p

\* The bytes the write in progress (or the last one) has appended.
Appended == SubSeq(buf, Len(entry) + 1, Len(buf))

LastValue == values[Len(values)]

\* The index of the first byte of b whose high bit is clear; 0 when there is none.
FirstTerminator(b) ==
    IF \E i \in 1..Len(b) : b[i] < 128
    THEN CHOOSE i \in 1..Len(b) : b[i] < 128 /\ \A j \in 1..(i - 1) : b[j] >= 128
    ELSE 0

\* The i-th 7-bit group g of a varint has a set bit at position >= the width of t.
GroupOverflows(t, g, i) ==
    LET shift == 7 * (i - 1)
    IN  IF shift >= t.bits THEN g # 0 ELSE g \div Pow2(t.bits - shift) # 0

\* The first terminated varint of b encodes a magnitude that does not fit in t's bits.
Overflows(t, b) ==
    LET k == FirstTerminator(b)
    IN  k > 0 /\ \E i \in 1..k : GroupOverflows(t, b[i] % 128, i)

AllContinuation(b) == b # <<>> /\ \A i \in 1..Len(b) : b[i] >= 128

(***************************************************************************)
(* C1. Unsigned round trip: write_T(v) on an empty buffer returns, and     *)
(* read_T on the bytes it wrote returns Ok((v, rest)) with rest empty.     *)
(***************************************************************************)
UnsignedRoundTrip ==
    (mode = "plain" /\ ~T.signed /\ Len(values) = 1) =>
        /\ pc # "abort"
        /\ Len(results) >= 1 =>
              /\ results[1].input = buf
              /\ results[1].ok
              /\ results[1].val = values[1]
              /\ results[1].left = <<>>

UnsignedRoundTripWitness ==
    /\ T = U16
    /\ values = <<65535>>
    /\ Len(results) = 1
    /\ results[1].input = <<255, 255, 3>>
    /\ results[1].ok

(***************************************************************************)
(* C2. Signed round trip: for every value v of a signed T, minimum and     *)
(* maximum included, write_T(v) on an empty buffer returns, and read_T on  *)
(* the bytes it wrote returns Ok((v, rest)) with rest empty.               *)
(***************************************************************************)
SignedRoundTrip ==
    (mode = "plain" /\ T.signed /\ Len(values) = 1) =>
        /\ pc # "abort"
        /\ Len(results) >= 1 =>
              /\ results[1].input = buf
              /\ results[1].ok
              /\ results[1].val = values[1]
              /\ results[1].left = <<>>

(***************************************************************************)
(* C3. Signed wire format: write_T(v) for a signed T appends exactly the   *)
(* base-128 encoding of 2v (v >= 0) or -2v-1 (v < 0): what it has appended *)
(* is at every moment a prefix of that encoding, and all of it on return.  *)
(***************************************************************************)
SignedWireFormat ==
    (mode = "plain" /\ T.signed /\ values # <<>>) =>
        LET enc == Base128(ZigZagOf(LastValue))
        IN  /\ pc # "abort"
            /\ IsPrefix(entry, buf)
            /\ IsPrefix(Appended, enc)
            /\ pc = "idle" => Appended = enc

(***************************************************************************)
(* C4. Unsigned wire format: write_T(v) for an unsigned T appends exactly  *)
(* max(1, ceil(bitlength(v)/7)) bytes after the bytes already there; byte  *)
(* i carries bits 7i..7i+6 of v, the continuation bit is set on every byte *)
(* but the last, and the last byte is non-zero unless v = 0.               *)
(***************************************************************************)
UnsignedWireFormat ==
    (mode = "plain" /\ ~T.signed /\ values # <<>> /\ pc = "idle") =>
        LET v == LastValue
            n == IF v = 0 THEN 1 ELSE CeilDiv(BitLength(v), 7)
        IN  /\ IsPrefix(entry, buf)
            /\ Len(Appended) = n
            /\ \A i \in 1..Len(Appended) :
                  /\ Appended[i] % 128 = (v \div Pow2(7 * (i - 1))) % 128
                  /\ (Appended[i] >= 128) <=> (i < n)
            /\ v # 0 => Appended[n] # 0
            /\ v = 0 => Appended = <<0>>
            /\ v <= 127 => Len(Appended) = 1
            /\ v = 128 => Appended = <<128, 1>>

UnsignedWireFormatWitness ==
    /\ T = U16
    /\ pc = "idle"
    /\ values = <<300, 200>>
    /\ entry = <<172, 2>>
    /\ buf = <<172, 2, 200, 1>>

(***************************************************************************)
(* C5. Width mismatch: a read of an input whose first terminated varint    *)
(* has a set bit at a position >= the width of T returns                   *)
(* Err(TooManyBytesForType).                                               *)
(***************************************************************************)
WidthMismatchDetected ==
    \A i \in 1..Len(results) :
        Overflows(T, results[i].input) =>
            ~results[i].ok /\ results[i].err = "TooManyBytesForType"

(***************************************************************************)
(* C6. A read returns Err(EmptyBuffer) exactly when its input is empty,    *)
(* and Err(NotEnoughBytes) on every non-empty input of at most ceil(W/7)   *)
(* bytes that all have the continuation bit set.                           *)
(***************************************************************************)
TruncationVersusEmptiness ==
    \A i \in 1..Len(results) :
        LET r == results[i]
        IN  /\ (~r.ok /\ r.err = "EmptyBuffer") <=> (r.input = <<>>)
            /\ (AllContinuation(r.input) /\ Len(r.input) <= CeilDiv(T.bits, 7)) =>
                  ~r.ok /\ r.err = "NotEnoughBytes"

TruncationVersusEmptinessWitness ==
    /\ T = I16
    /\ Len(results) = 1
    /\ results[1].input = <<255, 128, 255>>
    /\ results[1].err = "NotEnoughBytes"

(***************************************************************************)
(* C7. A read that returns Ok((v, rest)) consumed the shortest prefix of   *)
(* its input that ends at a byte with the high bit clear; rest is the      *)
(* remaining suffix, unaltered; v is what a read of that prefix alone, or  *)
(* of that prefix followed by other bytes, returns.                        *)
(***************************************************************************)
ReadConsumesOneElement ==
    mode = "plain" =>
        \A i \in 1..Len(results) :
            LET r == results[i]
                k == FirstTerminator(r.input)
                prefix == SubSeq(r.input, 1, k)
            IN  r.ok =>
                  /\ k > 0
                  /\ r.left = SubSeq(r.input, k + 1, Len(r.input))
                  /\ \A s \in {<<>>, <<0>>, <<255>>, <<128, 1>>} :
                        LET q == read(T, prefix \o s)
                        IN  q.ok /\ q.val = r.val /\ q.left = s

ReadConsumesOneElementWitness ==
    /\ T = I8
    /\ Len(results) = 1
    /\ results[1].input = <<254, 0, 255, 128>>
    /\ results[1].ok
    /\ results[1].left = <<255, 128>>

(***************************************************************************)
(* C8. Self-delimiting sequences: every write_T returns and leaves the     *)
(* bytes already in the buffer in place; n reads, each on the rest of the  *)
(* one before, return the n written values in order, the last with an      *)
(* empty rest, and one more read returns Err(EmptyBuffer).                 *)
(***************************************************************************)
SelfDelimitingSequences ==
    (mode = "plain" /\ values # <<>>) =>
        /\ pc # "abort"
        /\ IsPrefix(entry, buf)
        /\ \A i \in 1..Len(results) :
              IF i <= Len(values)
              THEN /\ results[i].ok
                   /\ results[i].val = values[i]
                   /\ i = Len(values) => results[i].left = <<>>
              ELSE ~results[i].ok /\ results[i].err = "EmptyBuffer"

(***************************************************************************)
(* C9. Delta round trip: write_many_delta over a list of values of a       *)
(* signed T emits every difference, and read_many_delta over those bytes   *)
(* produces the list, item by item, and stops without an error.            *)
(***************************************************************************)
DeltaRoundTrip ==
    mode = "delta" =>
        /\ pc # "abort"
        /\ \A i \in 1..Len(results) :
              /\ i <= Len(values)
              /\ results[i].ok
              /\ results[i].val = values[i]
        /\ view = <<>> => Len(results) = Len(values)

(***************************************************************************)
(* C10. Termination: write_T(v) returns after appending at least 1 and at  *)
(* most ceil(W/7) bytes; read_T returns after examining at most            *)
(* ceil(W/7)+1 bytes, with Ok or one of the three error kinds.             *)
(***************************************************************************)
OperationsTerminate ==
    /\ pc # "abort"
    /\ Len(Appended) <= CeilDiv(T.bits, 7)
    /\ (pc = "idle" /\ values # <<>>) => Len(Appended) >= 1
    /\ \A i \in 1..Len(results) :
          /\ Len(results[i].input) - Len(results[i].left) <= CeilDiv(T.bits, 7) + 1
          /\ results[i].ok \/
             results[i].err \in {"EmptyBuffer", "NotEnoughBytes", "TooManyBytesForType"}

\* The natural encoded by the groups of the bytes b[1..k], least significant first.
RECURSIVE Magnitude(_, _)
Magnitude(b, k) ==
    IF k = 0 THEN 0 ELSE (b[k] % 128) * Pow2(7 * (k - 1)) + Magnitude(b, k - 1)

(***************************************************************************)
(* C11. Signed read applies the exact zig-zag inverse: a read_T of a       *)
(* signed T that returns Ok, having accumulated the magnitude u            *)
(* (0 <= u < 2^W), returns u/2 when u is even and -(u+1)/2 when u is odd,  *)
(* also when bit W-1 of u is set.                                          *)
(***************************************************************************)
SignedReadInvertsZigZag ==
    (mode = "plain" /\ T.signed) =>
        \A i \in 1..Len(results) :
            LET r == results[i]
                u == Magnitude(r.input, FirstTerminator(r.input)) % Pow2(T.bits)
            IN  r.ok => r.val = IF u % 2 = 0 THEN u \div 2 ELSE -((u + 1) \div 2)

=============================================================================
